---- MODULE Spec2Model ----
(***************************************************************************)
(* Model of src/CircuitModel.py: draw_circuit and draw_parallel_elements.  *)
(*                                                                         *)
(* Strings are sequences of one-character strings, so that split, strip,   *)
(* startswith, endswith and slicing are computed and not assumed.          *)
(* Coordinates are integers counting half units: Units(3) is the length 3  *)
(* of the source, and spacing * (N - 1) / 2 stays exact.                   *)
(***************************************************************************)
EXTENDS Integers, Sequences, FiniteSets, TLC

VARIABLES
    unit,         \* length the drawing library gives a two-terminal element
    pc,           \* "idle" | "loop" | "done": position in draw_circuit
    circuit,      \* argument: the expression
    start_pos,    \* argument
    direction,    \* argument
    spacing,      \* argument
    parts,        \* circuit.split('-')
    i,            \* index (from 1) of the part the loop handles next
    current_pos,  \* the cursor
    drawing,      \* the primitives added to the Drawing, in order
    out,          \* the warnings printed by this call, in order
    part,         \* local `part` of the last loop iteration (stripped)
    parallel_components,  \* local of the last iteration on a p(...) part
    tokens,       \* history: the leaf tokens met so far, in order
    prev_pos,     \* cursor before the last loop iteration
    prev_len,     \* Len(drawing) before the last loop iteration
    prev_out,     \* Len(out) before the last loop iteration
    ref,          \* first completed call (arguments and result), or NoRef
    calls         \* number of calls of draw_circuit entered so far

vars == <<unit, pc, circuit, start_pos, direction, spacing, parts, i,
          current_pos, drawing, out, part, parallel_components, tokens,
          prev_pos, prev_len, prev_out, ref, calls>>

(***************************************************************************)
(* Bounds and input sets                                                   *)
(***************************************************************************)
MaxPieces == 3

MaxPiecesRepeat == 2

MaxCalls == 3

Units(n) == 2 * n

Directions == {"right", "left", "up", "down"}

Spacings == {Units(1), Units(2)}

UnitLengths == {Units(2), Units(3)}

StartPositions == {<<0, 0>>, <<Units(1), 0 - Units(2)>>}

\* Pieces an expression is assembled from (concatenated, no separator added).
Pieces ==
    { <<"R", "0">>,
      <<"-", "Z", "9">>,
      <<"B", "A", "T", "1">>,
      <<"-", " ">>,
      <<"p", "(">>,
      <<")">>,
      <<"p", "(", "R", "1", ",", "C", "1", ")", "-">>,
      <<"p", "(", "Z", "1", ",", ",", "Y", "2", ")", "-">>,
      <<"p", "(", "R", "1", ",", "Z", "9", ",", " ", "D", "2", ",", "C", "P", "E", "3", ")">> }

RepeatPieces ==
    { <<"R", "0">>, <<"-">>, <<"p", "(", "R", "1", ",", "Z", "9", ")">> }

RECURSIVE Concats(_, _)
Concats(P, n) ==
    IF n = 0 THEN {<<>>}
    ELSE LET shorter == Concats(P, n - 1)
         IN  shorter \cup {s \o p : s \in shorter, p \in P}

Circuits == Concats(Pieces, MaxPieces)

RepeatCircuits == Concats(RepeatPieces, MaxPiecesRepeat)

(***************************************************************************)
(* Python string operations                                                *)
(***************************************************************************)
IsSpace(c) == c \in {" ", "\t", "\n"}

Slice(s, a, b) == IF a > b THEN <<>> ELSE SubSeq(s, a, b)

\* str.split(sep) for a one-character separator: every occurrence splits,
\* empty fields are kept, the empty string gives one empty field.
RECURSIVE SplitFrom(_, _, _, _)
SplitFrom(s, sep, k, cur) ==
    IF k > Len(s) THEN <<cur>>
    ELSE IF s[k] = sep THEN <<cur>> \o SplitFrom(s, sep, k + 1, <<>>)
    ELSE SplitFrom(s, sep, k + 1, Append(cur, s[k]))

Split(s, sep) == SplitFrom(s, sep, 1, <<>>)

\* str.strip(): leading and trailing whitespace removed.
RECURSIVE LStrip(_)
LStrip(s) == IF s # <<>> /\ IsSpace(Head(s)) THEN LStrip(Tail(s)) ELSE s

RECURSIVE RStrip(_)
RStrip(s) ==
    IF s # <<>> /\ IsSpace(s[Len(s)]) THEN RStrip(SubSeq(s, 1, Len(s) - 1)) ELSE s

Strip(s) == RStrip(LStrip(s))

StartsWith(s, pre) == Len(s) >= Len(pre) /\ SubSeq(s, 1, Len(pre)) = pre

EndsWith(s, suf) ==
    Len(s) >= Len(suf) /\ SubSeq(s, Len(s) - Len(suf) + 1, Len(s)) = suf

RECURSIVE MapStrip(_)
MapStrip(ss) == IF ss = <<>> THEN <<>> ELSE <<Strip(Head(ss))>> \o MapStrip(Tail(ss))

(***************************************************************************)
(* component_map: the dict literal, entry by entry.  A key written twice   *)
(* keeps the value written last.                                           *)
(***************************************************************************)
component_entries ==
    << <<(<<"R">>), "RBox">>,
       <<(<<"C">>), "Capacitor">>,
       <<(<<"L">>), "Inductor">>,
       <<(<<"D">>), "Diode">>,
       <<(<<"L", "E", "D">>), "LED">>,
       <<(<<"B", "A", "T">>), "Battery">>,
       <<(<<"S", "W">>), "Switch">>,
       <<(<<"G", "N", "D">>), "Ground">>,
       <<(<<"s">>), "RBox">>,
       <<(<<"p">>), "RBox">>,
       <<(<<"R">>), "RBox">>,
       <<(<<"C">>), "RBox">>,
       <<(<<"L">>), "RBox">>,
       <<(<<"W">>), "RBox">>,
       <<(<<"W", "o">>), "RBox">>,
       <<(<<"W", "s">>), "RBox">>,
       <<(<<"C", "P", "E">>), "RBox">>,
       <<(<<"Q">>), "RBox">>,
       <<(<<"L", "a">>), "RBox">>,
       <<(<<"G">>), "RBox">>,
       <<(<<"G", "s">>), "RBox">>,
       <<(<<"K">>), "RBox">>,
       <<(<<"Z", "a", "r", "c">>), "RBox">>,
       <<(<<"T", "L", "M", "Q">>), "RBox">>,
       <<(<<"T">>), "RBox">> >>

component_keys == {component_entries[k][1] : k \in DOMAIN component_entries}

\* comp_type in component_map
InComponentMap(comp_type) == comp_type \in component_keys

\* component_map[comp_type]
component_map(comp_type) ==
    LET hits == {k \in DOMAIN component_entries : component_entries[k][1] = comp_type}
        last == CHOOSE k \in hits : \A j \in hits : j <= k
    IN  component_entries[last][2]

\* comp[0]: the first character, as a string of length one
CompType(comp) == <<comp[1]>>

\* comp[1:]
CompId(comp) == Tail(comp)

\* the text of the warning printed for an unknown type
Warning(comp_type, comp) == [type |-> comp_type, token |-> comp]

(***************************************************************************)
(* Geometry                                                                *)
(***************************************************************************)
branch_length == Units(3)

\* variant: every placement horizontal
OrientationHorizontalOnly(d) == IF d = "left" THEN "left" ELSE "right"

\* .right() / .left() / .up() / .down() as chosen by the if/elif/else chains
Orientation(d) == IF d \in {"right", "left", "up"} THEN d ELSE "down"

\* the far end of a two-terminal element of length `len` placed at `at`
ElementEnd(at, orient, len) ==
    CASE orient = "right" -> <<at[1] + len, at[2]>>
      [] orient = "left"  -> <<at[1] - len, at[2]>>
      [] orient = "up"    -> <<at[1], at[2] + len>>
      [] OTHER            -> <<at[1], at[2] - len>>

Dot(at) == [kind |-> "Dot", at |-> at]

Line(at, to) == [kind |-> "Line", at |-> at, to |-> to]

\* an element class instantiated, labelled, placed and oriented; `late` are
\* the label calls made on it after it was added to the drawing
Element(cls, labels, at, d, late) ==
    [kind |-> "Element", cls |-> cls, labels |-> labels, at |-> at,
     dir |-> Orientation(d), end |-> ElementEnd(at, Orientation(d), unit),
     late |-> late]

\* draw_parallel_elements: end_pos
EndPos(pos, d) ==
    IF d = "right" THEN <<pos[1] + branch_length, pos[2]>>
    ELSE IF d = "left" THEN <<pos[1] - branch_length, pos[2]>>
    ELSE IF d = "up" THEN <<pos[1], pos[2] + branch_length>>
    ELSE <<pos[1], pos[2] - branch_length>>

\* draw_parallel_elements: total_span
TotalSpan(n, sp) == sp * (n - 1)

\* variant: branches stacked from the main axis, not centred on it
BranchOffsetFromAxis(idx, n, sp) == idx * sp

\* start_pos[...] - total_span/2 + i * spacing, for the branch of index idx
\* (from 0), relative to the coordinate of start_pos
BranchOffset(idx, n, sp) == (0 - (TotalSpan(n, sp) \div 2)) + idx * sp

BranchStart(pos, d, idx, n, sp) ==
    IF d \in {"right", "left"}
    THEN <<pos[1], pos[2] + BranchOffset(idx, n, sp)>>
    ELSE <<pos[1] + BranchOffset(idx, n, sp), pos[2]>>

BranchEnd(pos, d, idx, n, sp) ==
    IF d \in {"right", "left"}
    THEN <<EndPos(pos, d)[1], pos[2] + BranchOffset(idx, n, sp)>>
    ELSE <<pos[1] + BranchOffset(idx, n, sp), EndPos(pos, d)[2]>>

Min(a, b) == IF a <= b THEN a ELSE b

\* the four primitives of one branch, in the order the loop body adds them
Branch(elements, labels, pos, d, sp, idx) ==
    LET n       == Len(elements)
        bstart  == BranchStart(pos, d, idx, n, sp)
        bend    == BranchEnd(pos, d, idx, n, sp)
        label   == labels[idx + 1]
        element == Element(elements[idx + 1], <<label>>, bstart, d,
                           IF label # <<>> THEN <<label>> ELSE <<>>)
    IN  << Line(pos, bstart), element, Line(element.end, bend),
           Line(bend, EndPos(pos, d)) >>

RECURSIVE Branches(_, _, _, _, _, _)
Branches(elements, labels, pos, d, sp, idx) ==
    IF idx >= Min(Len(elements), Len(labels)) THEN <<>>
    ELSE Branch(elements, labels, pos, d, sp, idx)
         \o Branches(elements, labels, pos, d, sp, idx + 1)

draw_parallel_elements(dr, elements, pos, d, sp, labels) ==
    dr \o <<Dot(pos), Dot(EndPos(pos, d))>>
       \o Branches(elements, labels, pos, d, sp, 0)

(***************************************************************************)
(* draw_circuit: the parallel branch of the loop body                      *)
(***************************************************************************)
\* variant: the closing parenthesis is not required
IsParallelPrefixOnly(seg) == StartsWith(seg, <<"p", "(">>)

IsParallel(seg) == StartsWith(seg, <<"p", "(">>) /\ EndsWith(seg, <<")">>)

\* [comp.strip() for comp in seg[2:-1].split(',')]
ParallelComponents(seg) ==
    MapStrip(Split(Slice(seg, 3, Len(seg) - 1), ","))

\* variant: the first unknown type ends the scan of the group
RECURSIVE ParallelElementsAbort(_)
ParallelElementsAbort(comps) ==
    IF comps = <<>> THEN <<>>
    ELSE LET comp == Head(comps)
         IN  IF comp = <<>> THEN ParallelElementsAbort(Tail(comps))
             ELSE IF InComponentMap(CompType(comp))
             THEN <<component_map(CompType(comp))>> \o ParallelElementsAbort(Tail(comps))
             ELSE <<>>

RECURSIVE ParallelElements(_)
ParallelElements(comps) ==
    IF comps = <<>> THEN <<>>
    ELSE LET comp == Head(comps)
         IN  IF comp = <<>> THEN ParallelElements(Tail(comps))
             ELSE IF InComponentMap(CompType(comp))
             THEN <<component_map(CompType(comp))>> \o ParallelElements(Tail(comps))
             ELSE ParallelElements(Tail(comps))

RECURSIVE ParallelLabels(_)
ParallelLabels(comps) ==
    IF comps = <<>> THEN <<>>
    ELSE LET comp == Head(comps)
         IN  IF comp = <<>> THEN ParallelLabels(Tail(comps))
             ELSE IF InComponentMap(CompType(comp))
             THEN <<CompType(comp) \o CompId(comp)>> \o ParallelLabels(Tail(comps))
             ELSE ParallelLabels(Tail(comps))

RECURSIVE ParallelWarnings(_)
ParallelWarnings(comps) ==
    IF comps = <<>> THEN <<>>
    ELSE LET comp == Head(comps)
         IN  IF comp = <<>> THEN ParallelWarnings(Tail(comps))
             ELSE IF InComponentMap(CompType(comp))
             THEN ParallelWarnings(Tail(comps))
             ELSE <<Warning(CompType(comp), comp)>> \o ParallelWarnings(Tail(comps))

\* variants: a group of one is not drawn; a group of none is drawn
DrawsGroupOfSeveral(elements) == Len(elements) > 1

DrawsGroupAlways(elements) == TRUE

\* `if elements:`
DrawsGroup(elements) == elements # <<>>

\* variant: the cursor advances by the length of an element
AdvanceCursorByElement(pos, d) == ElementEnd(pos, Orientation(d), unit)

\* the cursor after a drawn group
AdvanceCursor(pos, d) ==
    IF d = "right" THEN <<pos[1] + branch_length, pos[2]>>
    ELSE IF d = "left" THEN <<pos[1] - branch_length, pos[2]>>
    ELSE IF d = "up" THEN <<pos[1], pos[2] + branch_length>>
    ELSE <<pos[1], pos[2] - branch_length>>

\* variant: the cursor advances by branch_length after a leaf too
LeafCursorByBranch(component) == EndPos(component.at, component.dir)

\* the cursor after a drawn series leaf: component.end
LeafCursor(component) == component.end

\* variant: the drawing of the previous call is reused
StaleDrawing == drawing

\* drawing = schemdraw.Drawing()
NewDrawing == <<>>

(***************************************************************************)
(* State machine                                                           *)
(***************************************************************************)
NoRef == [set |-> FALSE]

Init ==
    /\ unit \in UnitLengths
    /\ pc = "idle"
    /\ circuit = <<>>
    /\ start_pos = <<0, 0>>
    /\ direction = "right"
    /\ spacing = Units(1)
    /\ parts = <<>>
    /\ i = 1
    /\ current_pos = <<0, 0>>
    /\ drawing = <<>>
    /\ out = <<>>
    /\ part = <<>>
    /\ parallel_components = <<>>
    /\ tokens = <<>>
    /\ prev_pos = <<0, 0>>
    /\ prev_len = 0
    /\ prev_out = 0
    /\ ref = NoRef
    /\ calls = 0

\* entry of draw_circuit up to the loop
Enter(c, sp, d, s) ==
    /\ circuit' = c
    /\ start_pos' = sp
    /\ direction' = d
    /\ spacing' = s
    /\ drawing' = NewDrawing
    /\ current_pos' = sp
    /\ parts' = Split(c, "-")
    /\ i' = 1
    /\ out' = <<>>
    /\ part' = <<>>
    /\ parallel_components' = <<>>
    /\ tokens' = <<>>
    /\ prev_pos' = sp
    /\ prev_len' = Len(NewDrawing)
    /\ prev_out' = 0
    /\ pc' = "loop"
    /\ calls' = calls + 1
    /\ UNCHANGED <<unit, ref>>

\* a call of draw_circuit
Call ==
    /\ pc = "idle"
    /\ \E c \in Circuits, sp \in StartPositions, d \in Directions, s \in Spacings :
           Enter(c, sp, d, s)

Part == Strip(parts[i])

NonEmpty(ss) == SelectSeq(ss, LAMBDA t : t # <<>>)

Snapshot ==
    /\ prev_pos' = current_pos
    /\ prev_len' = Len(drawing)
    /\ prev_out' = Len(out)

\* one loop iteration on a part of the form p(...)
ParallelStep ==
    /\ pc = "loop"
    /\ i <= Len(parts)
    /\ IsParallel(Part)
    /\ LET comps    == ParallelComponents(Part)
           elements == ParallelElements(comps)
           labels   == ParallelLabels(comps)
       IN  /\ out' = out \o ParallelWarnings(comps)
           /\ IF DrawsGroup(elements)
              THEN /\ drawing' = draw_parallel_elements(drawing, elements,
                                     current_pos, direction, spacing, labels)
                   /\ current_pos' = AdvanceCursor(current_pos, direction)
              ELSE UNCHANGED <<drawing, current_pos>>
           /\ part' = Part
           /\ parallel_components' = comps
           /\ tokens' = tokens \o NonEmpty(comps)
    /\ Snapshot
    /\ i' = i + 1
    /\ UNCHANGED <<unit, pc, circuit, start_pos, direction, spacing, parts, ref, calls>>

\* one loop iteration on a non-empty part that is not of the form p(...)
LeafStep ==
    /\ pc = "loop"
    /\ i <= Len(parts)
    /\ ~IsParallel(Part)
    /\ Part # <<>>
    /\ LET comp_type == CompType(Part)
           comp_id   == CompId(Part)
       IN  IF InComponentMap(comp_type)
           THEN LET component == Element(component_map(comp_type), <<Part>>,
                                         current_pos, direction, <<comp_id>>)
                IN  /\ drawing' = Append(drawing, component)
                    /\ current_pos' = LeafCursor(component)
                    /\ out' = out
           ELSE /\ out' = Append(out, Warning(comp_type, Part))
                /\ UNCHANGED <<drawing, current_pos>>
    /\ part' = Part
    /\ tokens' = Append(tokens, Part)
    /\ UNCHANGED parallel_components
    /\ Snapshot
    /\ i' = i + 1
    /\ UNCHANGED <<unit, pc, circuit, start_pos, direction, spacing, parts, ref, calls>>

\* one loop iteration on a part that is empty after strip()
EmptyStep ==
    /\ pc = "loop"
    /\ i <= Len(parts)
    /\ Part = <<>>
    /\ part' = Part
    /\ UNCHANGED <<parallel_components, tokens>>
    /\ Snapshot
    /\ i' = i + 1
    /\ UNCHANGED <<unit, pc, circuit, start_pos, direction, spacing, parts,
                   current_pos, drawing, out, ref, calls>>

\* return drawing
Return ==
    /\ pc = "loop"
    /\ i > Len(parts)
    /\ pc' = "done"
    /\ UNCHANGED <<unit, circuit, start_pos, direction, spacing, parts, i,
                   current_pos, drawing, out, part, parallel_components, tokens,
                   prev_pos, prev_len, prev_out, ref, calls>>

Next == Call \/ ParallelStep \/ LeafStep \/ EmptyStep \/ Return

Spec == Init /\ [][Next]_vars

(***************************************************************************)
(* Repeated calls: the first completed call is remembered in ref, and any  *)
(* number of further calls (up to MaxCalls in all) follow it.              *)
(***************************************************************************)
RepeatDirections == {"right", "up"}

InitRepeat == Init /\ unit = Units(3)

CallRepeat ==
    /\ pc \in {"idle", "done"}
    /\ calls < MaxCalls
    /\ \E c \in RepeatCircuits, d \in RepeatDirections :
           Enter(c, <<0, 0>>, d, Units(1))

ReturnRecord ==
    /\ pc = "loop"
    /\ i > Len(parts)
    /\ pc' = "done"
    /\ ref' = IF ref.set THEN ref
              ELSE [set |-> TRUE,
                    args |-> <<circuit, start_pos, direction, spacing>>,
                    drawing |-> drawing, out |-> out, pos |-> current_pos]
    /\ UNCHANGED <<unit, circuit, start_pos, direction, spacing, parts, i,
                   current_pos, drawing, out, part, parallel_components, tokens,
                   prev_pos, prev_len, prev_out, calls>>

NextRepeat == CallRepeat \/ ParallelStep \/ LeafStep \/ EmptyStep \/ ReturnRecord

SpecRepeat == InitRepeat /\ [][NextRepeat]_vars

(***************************************************************************)
(* Vocabulary of the properties: segments, leaf tokens, vectors            *)
(***************************************************************************)
\* the loop has handled at least one segment: part is the last one handled
Stepped == pc \in {"loop", "done"} /\ i > 1

IsGroup(seg) == StartsWith(seg, <<"p", "(">>) /\ EndsWith(seg, <<")">>)

IsSeriesLeaf(seg) == seg # <<>> /\ ~IsGroup(seg)

\* the tag draw_circuit reads off a token is its first character
TagKnown(token) == <<token[1]>> \in component_keys

\* the leaf tokens of the group handled last, by position among its fields
GroupTokens == {j \in DOMAIN parallel_components : parallel_components[j] # <<>>}

KnownInGroup == {j \in GroupTokens : TagKnown(parallel_components[j])}

KnownTokens == {n \in DOMAIN tokens : TagKnown(tokens[n])}

UnknownTokens == DOMAIN tokens \ KnownTokens

ElementsOf(dr) == {n \in DOMAIN dr : dr[n].kind = "Element"}

\* unit vector of a direction, and of its perpendicular axis
Along(d) ==
    CASE d = "right" -> <<1, 0>>
      [] d = "left"  -> <<0 - 1, 0>>
      [] d = "up"    -> <<0, 1>>
      [] d = "down"  -> <<0, 0 - 1>>

Perp(d) == IF d \in {"right", "left"} THEN <<0, 1>> ELSE <<1, 0>>

Shift(pos, v, len) == <<pos[1] + len * v[1], pos[2] + len * v[2]>>

Dotp(a, b) == a[1] * b[1] + a[2] * b[2]

\* the primitives added by the last loop iteration
Added == SubSeq(drawing, prev_len + 1, Len(drawing))

(***************************************************************************)
(* C1: when every leaf token has a tag draw_circuit recognises, the        *)
(* finished drawing holds exactly one element per leaf token (series       *)
(* leaves plus the leaves inside all parallel groups).                     *)
(***************************************************************************)
C1_OneElementPerLeafToken ==
    (pc = "done" /\ UnknownTokens = {})
        => Cardinality(ElementsOf(drawing)) = Len(tokens)

\* "R0- p(R1,C1)-": a series leaf and a group of two
C1_Witness ==
    /\ pc = "done"
    /\ UnknownTokens = {}
    /\ circuit = <<"R", "0", "-", " ", "p", "(", "R", "1", ",", "C", "1", ")", "-">>
    /\ Len(tokens) = 3
    /\ Cardinality(ElementsOf(drawing)) = 3

(***************************************************************************)
(* C2: a leaf token whose tag is not registered costs exactly one warning, *)
(* draws no element and does not move the cursor; the other leaves of its  *)
(* group and the other segments are still handled, and the call reaches    *)
(* its end with one warning per unknown token and one element per known    *)
(* token.                                                                  *)
(***************************************************************************)
C2_UnknownTagSkipped ==
    /\ (Stepped /\ IsSeriesLeaf(part) /\ ~TagKnown(part))
         => /\ Len(out) = prev_out + 1
            /\ out[Len(out)].token = part
            /\ Len(drawing) = prev_len
            /\ current_pos = prev_pos
    /\ (Stepped /\ IsGroup(part))
         => /\ Len(out) - prev_out = Cardinality(GroupTokens \ KnownInGroup)
            /\ Cardinality(ElementsOf(Added)) = Cardinality(KnownInGroup)
            /\ \A j \in KnownInGroup :
                   \E n \in ElementsOf(Added) :
                       Added[n].labels = <<parallel_components[j]>>
    /\ pc = "done"
         => /\ i = Len(parts) + 1
            /\ Len(out) = Cardinality(UnknownTokens)
            /\ Cardinality(ElementsOf(drawing)) = Cardinality(KnownTokens)

\* "R0-Z9" finished: one element, one warning
C2_Witness ==
    /\ pc = "done"
    /\ circuit = <<"R", "0", "-", "Z", "9">>
    /\ Len(out) = 1
    /\ Cardinality(ElementsOf(drawing)) = 1
    /\ unit = Units(2)
    /\ direction = "left"

\* a group with an unknown leaf between known ones
C2_WitnessGroup ==
    /\ Stepped
    /\ IsGroup(part)
    /\ Cardinality(KnownInGroup) = 3
    /\ Cardinality(GroupTokens \ KnownInGroup) = 1
    /\ Len(out) > prev_out

(***************************************************************************)
(* C3: every leaf token made of a registered tag (a key of component_map)  *)
(* followed by an identifier is drawn as an element, with no warning.      *)
(***************************************************************************)
HasRegisteredTag(token) ==
    \E key \in component_keys : StartsWith(token, key) /\ Len(token) > Len(key)

C3_RegisteredTagsRecognised ==
    (pc = "done" /\ \A n \in DOMAIN tokens : HasRegisteredTag(tokens[n]))
        => /\ out = <<>>
           /\ Cardinality(ElementsOf(drawing)) = Len(tokens)

(***************************************************************************)
(* C4: a group of N >= 1 recognised leaves drawn from P has its entry      *)
(* junction at P, its exit junction 3 units further along the direction,   *)
(* and branch idx from P + offset to exit + offset on the perpendicular    *)
(* axis, offset = -spacing*(N-1)/2 + idx*spacing: evenly spaced, summing   *)
(* to zero.  "p(R1,C1)" at (0,0), right, spacing 1: offsets -0.5 and +0.5, *)
(* junctions (0,0) and (3,0).                                              *)
(***************************************************************************)
\* twice the offset of branch idx among n, so that no division is needed
TwiceOffset(idx, n, sp) == 2 * idx * sp - sp * (n - 1)

RECURSIVE SumTwiceOffsets(_, _, _)
SumTwiceOffsets(idx, n, sp) ==
    IF idx >= n THEN 0 ELSE TwiceOffset(idx, n, sp) + SumTwiceOffsets(idx + 1, n, sp)

C4_BranchGeometry ==
    (Stepped /\ IsGroup(part) /\ KnownInGroup # {})
        => LET n     == Cardinality(KnownInGroup)
               P     == prev_pos
               exit  == Shift(P, Along(direction), Units(3))
               perp  == Perp(direction)
               off(idx) == Dotp(Added[4 + 4 * idx].at, perp) - Dotp(P, perp)
           IN  /\ Len(Added) = 2 + 4 * n
               /\ Added[1] = [kind |-> "Dot", at |-> P]
               /\ Added[2] = [kind |-> "Dot", at |-> exit]
               /\ \A idx \in 0 .. (n - 1) :
                      LET a == Added[3 + 4 * idx]
                          e == Added[4 + 4 * idx]
                          b == Added[5 + 4 * idx]
                          c == Added[6 + 4 * idx]
                      IN  /\ e.kind = "Element"
                          /\ 2 * off(idx) = TwiceOffset(idx, n, spacing)
                          /\ e.at = Shift(P, perp, off(idx))
                          /\ a = [kind |-> "Line", at |-> P, to |-> e.at]
                          /\ b.kind = "Line"
                          /\ b.to = Shift(exit, perp, off(idx))
                          /\ c = [kind |-> "Line", at |-> b.to, to |-> exit]
                          /\ idx > 0 => off(idx) - off(idx - 1) = spacing
               /\ SumTwiceOffsets(0, n, spacing) = 0
               /\ (/\ part = <<"p", "(", "R", "1", ",", "C", "1", ")">>
                   /\ P = <<0, 0>> /\ direction = "right" /\ spacing = Units(1))
                     => /\ 2 * off(0) = 0 - Units(1)
                        /\ 2 * off(1) = Units(1)
                        /\ exit = <<Units(3), 0>>

\* three branches, upwards, spacing 2, away from the origin
C4_Witness ==
    /\ Stepped
    /\ IsGroup(part)
    /\ Cardinality(KnownInGroup) = 3
    /\ direction = "up"
    /\ spacing = Units(2)
    /\ prev_pos = <<Units(1), 0 - Units(2)>>
    /\ Len(Added) = 14
    /\ Added[4].at = <<Units(1) - Units(2), 0 - Units(2)>>

\* the example of the specification
C4_WitnessExample ==
    /\ Stepped
    /\ part = <<"p", "(", "R", "1", ",", "C", "1", ")">>
    /\ prev_pos = <<0, 0>> /\ direction = "right" /\ spacing = Units(1)
    /\ Added[4].at = <<0, 0 - 1>>
    /\ Added[8].at = <<0, 1>>

(***************************************************************************)
(* C5: after a group with at least one recognised leaf the cursor is 3     *)
(* units further along the direction and unmoved on the perpendicular      *)
(* axis, whatever the number of leaves, the spacing and the elements'      *)
(* length; it is where the exit junction was drawn.                        *)
(***************************************************************************)
C5_GroupAdvance ==
    (Stepped /\ IsGroup(part) /\ KnownInGroup # {})
        => /\ current_pos = Shift(prev_pos, Along(direction), Units(3))
           /\ Dotp(current_pos, Perp(direction)) = Dotp(prev_pos, Perp(direction))
           /\ Added[2].kind = "Dot"
           /\ current_pos = Added[2].at

C5_Witness ==
    /\ Stepped
    /\ IsGroup(part)
    /\ Cardinality(KnownInGroup) = 2
    /\ unit = Units(2)
    /\ spacing = Units(2)
    /\ direction = "down"
    /\ current_pos = Shift(prev_pos, <<0, 0 - 1>>, Units(3))

(***************************************************************************)
(* C6: a group with no recognised leaf (all tags unknown, or no leaf at    *)
(* all) adds nothing to the drawing and leaves the cursor where it was, so *)
(* the next segment is placed where the group would have started.          *)
(***************************************************************************)
C6_EmptyGroupDrawsNothing ==
    /\ (Stepped /\ IsGroup(part) /\ KnownInGroup = {})
         => /\ Len(drawing) = prev_len
            /\ current_pos = prev_pos
    /\ (/\ Stepped /\ i = 3
        /\ IsSeriesLeaf(part) /\ TagKnown(part)
        /\ IsGroup(Strip(parts[1])) /\ Len(tokens) - Len(out) = 1)
         => /\ Len(drawing) = 1
            /\ drawing[1].at = start_pos

\* "p(Z1,,Y2)-R0": two warnings, then R0 at the start position
C6_Witness ==
    /\ Stepped
    /\ i = 3
    /\ circuit = <<"p", "(", "Z", "1", ",", ",", "Y", "2", ")", "-", "R", "0">>
    /\ start_pos # <<0, 0>>
    /\ Len(out) = 2
    /\ Len(drawing) = 1

\* "p()": a group with no leaf at all
C6_WitnessNoLeaf ==
    /\ Stepped
    /\ part = <<"p", "(", ")">>
    /\ Len(drawing) = 0

(***************************************************************************)
(* C7: a recognised series leaf is placed at the cursor, oriented along    *)
(* the direction, and the cursor becomes its far end; k recognised series  *)
(* leaves give k elements end to end and a final cursor k element lengths  *)
(* from the start.                                                         *)
(***************************************************************************)
C7_SeriesLeafPlacement ==
    /\ (Stepped /\ IsSeriesLeaf(part) /\ TagKnown(part))
         => /\ Len(drawing) = prev_len + 1
            /\ drawing[Len(drawing)].kind = "Element"
            /\ drawing[Len(drawing)].at = prev_pos
            /\ drawing[Len(drawing)].dir = direction
            /\ drawing[Len(drawing)].labels = <<part>>
            /\ current_pos = drawing[Len(drawing)].end
            /\ current_pos = Shift(prev_pos, Along(direction), unit)
    /\ (/\ pc = "done"
        /\ \A k \in DOMAIN parts :
               IsSeriesLeaf(Strip(parts[k])) /\ TagKnown(Strip(parts[k])))
         => /\ Len(drawing) = Len(parts)
            /\ \A n \in DOMAIN drawing : drawing[n].kind = "Element"
            /\ \A n \in 1 .. (Len(drawing) - 1) : drawing[n + 1].at = drawing[n].end
            /\ current_pos = Shift(start_pos, Along(direction), Len(parts) * unit)

\* "R0- R0": two elements, two element lengths
C7_Witness ==
    /\ pc = "done"
    /\ circuit = <<"R", "0", "-", " ", "R", "0">>
    /\ Len(drawing) = 2
    /\ unit = Units(2)
    /\ direction = "left"
    /\ current_pos = <<start_pos[1] - 2 * Units(2), start_pos[2]>>

(***************************************************************************)
(* C8: a call with the arguments of an earlier call, whatever calls were   *)
(* made in between, ends with the same primitives in the same order, the   *)
(* same warnings and the same cursor.                                      *)
(***************************************************************************)
C8_SameArgumentsSameResult ==
    (/\ pc = "done"
     /\ ref.set
     /\ ref.args = <<circuit, start_pos, direction, spacing>>)
        => /\ drawing = ref.drawing
           /\ out = ref.out
           /\ current_pos = ref.pos

\* a third call that repeats the first: "p(R1,Z9)" again
C8_Witness ==
    /\ pc = "done"
    /\ calls = 3
    /\ ref.set
    /\ ref.args = <<circuit, start_pos, direction, spacing>>
    /\ Len(drawing) = 6
    /\ Len(out) = 1

(***************************************************************************)
(* C9: within a call the cursor never moves back: after each segment it is *)
(* where it was or further along the direction, its perpendicular          *)
(* coordinate is that of start_pos, and every element placed is oriented   *)
(* along the direction passed to the call.                                 *)
(***************************************************************************)
C9_CursorMonotone ==
    pc \in {"loop", "done"}
        => /\ Dotp(current_pos, Along(direction)) >= Dotp(prev_pos, Along(direction))
           /\ Dotp(prev_pos, Along(direction)) >= Dotp(start_pos, Along(direction))
           /\ Dotp(current_pos, Perp(direction)) = Dotp(start_pos, Perp(direction))
           /\ Dotp(prev_pos, Perp(direction)) = Dotp(start_pos, Perp(direction))
           /\ \A n \in ElementsOf(drawing) : drawing[n].dir = direction

\* "p(R1,C1)-R0-Z9": a group, a leaf and an unknown leaf, leftwards
C9_Witness ==
    /\ pc = "done"
    /\ circuit = <<"p", "(", "R", "1", ",", "C", "1", ")", "-", "R", "0", "-", "Z", "9">>
    /\ direction = "left"
    /\ start_pos # <<0, 0>>
    /\ Len(out) = 1
    /\ current_pos = <<start_pos[1] - unit - Units(3), start_pos[2]>>

(***************************************************************************)
(* C10: malformed input is not rejected.  A segment that starts with "p("  *)
(* and does not end with ")" is one series leaf of tag "p": one element    *)
(* labelled with the whole segment, the cursor one element length further, *)
(* no warning.  An empty segment or an empty expression draws nothing,     *)
(* warns of nothing and leaves the cursor in place.                        *)
(***************************************************************************)
OpenGroup(seg) == StartsWith(seg, <<"p", "(">>) /\ ~EndsWith(seg, <<")">>)

C10_MalformedGroupIsLeaf ==
    /\ (Stepped /\ OpenGroup(part))
         => /\ Len(drawing) = prev_len + 1
            /\ drawing[Len(drawing)].kind = "Element"
            /\ drawing[Len(drawing)].labels = <<part>>
            /\ drawing[Len(drawing)].at = prev_pos
            /\ current_pos = Shift(prev_pos, Along(direction), unit)
            /\ Len(out) = prev_out
    /\ (Stepped /\ part = <<>>)
         => /\ Len(drawing) = prev_len
            /\ Len(out) = prev_out
            /\ current_pos = prev_pos
    /\ (pc = "done" /\ circuit = <<>>)
         => /\ i = 2
            /\ drawing = <<>>
            /\ out = <<>>
            /\ current_pos = start_pos

\* "p(R0-Z9": the '-' inside the group leaves the open piece "p(R0"
C10_Witness ==
    /\ Stepped
    /\ i = 2
    /\ circuit = <<"p", "(", "R", "0", "-", "Z", "9">>
    /\ part = <<"p", "(", "R", "0">>
    /\ Len(drawing) = 1
    /\ unit = Units(2)

C10_WitnessEmpty ==
    /\ pc = "done"
    /\ circuit = <<>>
    /\ parts = << <<>> >>

====
